---------------------------- MODULE Spec2Model ----------------------------
(***************************************************************************)
(* Model of the single-tape deterministic Turing machine simulator:        *)
(* the sparse tape (tape.py) and the machine engine (turing_machine.py).   *)
(* Strings that the program iterates over (input strings) are sequences of *)
(* one-character strings; strings that the program only builds (ids,       *)
(* final_tape) are strings, built with \o as the program builds them.      *)
(***************************************************************************)
EXTENDS Integers, Sequences, FiniteSets, TLC

VARIABLES tape, last, tm, call, error, pc, input_string, max_steps,
          current_state, steps, ids, result, workers

vars == <<tape, last, tm, call, error, pc, input_string, max_steps,
          current_state, steps, ids, result, workers>>

tapeVars == <<tape, last>>
buildVars == <<tm, call, error>>
runVars == <<pc, input_string, max_steps, current_state, steps, ids, result>>
parVars == <<workers>>

(***************************************************************************)
(* Bounds of the model.                                                    *)
(***************************************************************************)
MaxLen == 2
MaxHead == 1
MaxInput == 1
MaxRules == 1
MaxStepsArg == 1
MaxRun == 2
MaxYamlRules == 1
MaxList == 2

(***************************************************************************)
(* Values the inputs are drawn from.                                       *)
(***************************************************************************)
DefaultBlank == "B"
TapeSymbols == {"a", "B"}
InputSymbols == {"a", "B", "c"}
StateIds == {"q0", "qf"}
\* a direction string is the sequence of its code points, so that upper can
\* work on it character by character; CodePoints is Basic Latin, Latin-1
\* and Latin Extended-A
CodePoints == 0..383
UpperL == <<76>>
UpperR == <<82>>
UpperS == <<83>>
UpperX == <<88>>
LowerL == <<108>>
LowerR == <<114>>
LowerS == <<115>>
LongS == <<383>>
LowerLL == <<108, 108>>
Moves == {UpperL, UpperR, UpperS, LowerR, LongS, UpperX}
TapeMoves == Moves \cup {LowerL, LowerLL}
None == "None"
Unset == [set |-> FALSE, v |-> 0]
Limit(n) == [set |-> TRUE, v |-> n]
NoTM == [none |-> "machine"]
NoResult == [none |-> "result"]
NoCall == [op |-> "none"]

RunInputSymbols == {"a", "c"}

RECURSIVE SeqsUpTo(_, _)
SeqsUpTo(n, S) ==
    IF n = 0 THEN {<<>>}
    ELSE LET shorter == SeqsUpTo(n - 1, S)
         IN  shorter \cup {Append(q, x) : q \in shorter, x \in S}

TapeStrings == SeqsUpTo(MaxLen, InputSymbols)
InputStrings == SeqsUpTo(MaxInput, RunInputSymbols)

(***************************************************************************)
(* "".join(symbols)                                                        *)
(***************************************************************************)
RECURSIVE Join(_)
Join(symbols) ==
    IF symbols = <<>> THEN ""
    ELSE Head(symbols) \o Join(Tail(symbols))

SetMin(S) == CHOOSE m \in S : \A x \in S : m <= x
SetMax(S) == CHOOSE m \in S : \A x \in S : m >= x

(***************************************************************************)
(* Tape (tape.py).  A tape is a record of its three fields; cells is a     *)
(* function whose domain is the set of stored positions.                   *)
(***************************************************************************)
Tape(blank) == [blank_symbol |-> blank, cells |-> <<>>, head |-> 0]

load_input_no_clear(t, s) ==
    [t EXCEPT !.cells = [i \in (DOMAIN t.cells) \cup (0..(Len(s) - 1)) |->
                           IF i \in 0..(Len(s) - 1) THEN s[i + 1] ELSE t.cells[i]],
              !.head = 0]

load_input(t, s) ==
    [t EXCEPT !.cells = [i \in 0..(Len(s) - 1) |-> s[i + 1]],
              !.head = 0]

read(t) ==
    IF t.head \in DOMAIN t.cells THEN t.cells[t.head] ELSE t.blank_symbol

write_right_of_head(t, symbol) ==
    LET pos == t.head + 1
    IN  IF symbol = t.blank_symbol /\ pos \in DOMAIN t.cells
        THEN [t EXCEPT !.cells = [p \in (DOMAIN t.cells) \ {pos} |-> t.cells[p]]]
        ELSE [t EXCEPT !.cells = [p \in (DOMAIN t.cells) \cup {pos} |->
                                    IF p = pos THEN symbol ELSE t.cells[p]]]

write_blank_is_skipped(t, symbol) ==
    IF symbol = t.blank_symbol
    THEN t
    ELSE [t EXCEPT !.cells = [p \in (DOMAIN t.cells) \cup {t.head} |->
                                IF p = t.head THEN symbol ELSE t.cells[p]]]

write(t, symbol) ==
    IF symbol = t.blank_symbol /\ t.head \in DOMAIN t.cells
    THEN [t EXCEPT !.cells = [p \in (DOMAIN t.cells) \ {t.head} |-> t.cells[p]]]
    ELSE [t EXCEPT !.cells = [p \in (DOMAIN t.cells) \cup {t.head} |->
                                IF p = t.head THEN symbol ELSE t.cells[p]]]

\* the upper case of one character of CodePoints, as str.upper() gives it:
\* one code point, or two for the sharp s (223) and for 329
upper_char(c) ==
    CASE c \in 97..122 -> <<c - 32>>
      [] c = 181 -> <<924>>
      [] c = 223 -> <<83, 83>>
      [] c \in 224..254 /\ c # 247 -> <<c - 32>>
      [] c = 255 -> <<376>>
      [] c = 305 -> <<73>>
      [] c = 329 -> <<700, 78>>
      [] c = 383 -> <<83>>
      [] c \in (257..303) \cup (307..311) \cup (331..375) /\ c % 2 = 1 -> <<c - 1>>
      [] c \in (314..328) \cup (378..382) /\ c % 2 = 0 -> <<c - 1>>
      [] OTHER -> <<c>>

\* str.upper(): the upper case of every character, in order
RECURSIVE upper(_)
upper(d) == IF d = <<>> THEN <<>> ELSE upper_char(Head(d)) \o upper(Tail(d))

move_raises_no_upper(direction) == direction \notin {UpperL, UpperR, UpperS}

move_raises(direction) == upper(direction) \notin {UpperL, UpperR, UpperS}

move_left_by_two(t, direction) ==
    LET d == upper(direction)
    IN  IF d = UpperL THEN [t EXCEPT !.head = t.head - 2]
        ELSE IF d = UpperR THEN [t EXCEPT !.head = t.head + 1]
        ELSE t

move_right_unless_left(t, direction) ==
    LET d == upper(direction)
    IN  IF d = UpperL THEN [t EXCEPT !.head = t.head - 1]
        ELSE [t EXCEPT !.head = t.head + 1]

\* the tape after the call; when move_raises(direction) the call raised and
\* the tape is as it was
move(t, direction) ==
    LET d == upper(direction)
    IN  IF d = UpperL THEN [t EXCEPT !.head = t.head - 1]
        ELSE IF d = UpperR THEN [t EXCEPT !.head = t.head + 1]
        ELSE t

used_indices_cells_only(t) ==
    IF DOMAIN t.cells = {}
    THEN <<t.head, t.head - 1>>
    ELSE <<SetMin(DOMAIN t.cells), SetMax(DOMAIN t.cells)>>

used_indices(t) ==
    IF DOMAIN t.cells = {}
    THEN <<t.head, t.head>>
    ELSE LET indices == (DOMAIN t.cells) \cup {t.head}
         IN  <<SetMin(indices), SetMax(indices)>>

get_view_head_absolute(t) ==
    LET min_i == used_indices(t)[1]
        max_i == used_indices(t)[2]
        symbols == [k \in 1..(max_i - min_i + 1) |->
                      IF (min_i + k - 1) \in DOMAIN t.cells
                      THEN t.cells[min_i + k - 1]
                      ELSE t.blank_symbol]
    IN  <<symbols, t.head>>

get_view(t) ==
    LET min_i == used_indices(t)[1]
        max_i == used_indices(t)[2]
        symbols == [k \in 1..(max_i - min_i + 1) |->
                      IF (min_i + k - 1) \in DOMAIN t.cells
                      THEN t.cells[min_i + k - 1]
                      ELSE t.blank_symbol]
    IN  <<symbols, t.head - min_i>>

get_string(t) == Join(get_view(t)[1])

(***************************************************************************)
(* The tape on its own: any sequence of load_input, write and move.        *)
(* last records the operation that produced the current tape.              *)
(***************************************************************************)
TapeLoadInput(s) ==
    /\ tape' = load_input(tape, s)
    /\ last' = [op |-> "load_input", arg |-> s, before |-> tape]
    /\ UNCHANGED <<parVars, buildVars, runVars>>

TapeWrite(symbol) ==
    /\ tape' = write(tape, symbol)
    /\ last' = [op |-> "write", arg |-> symbol, before |-> tape]
    /\ UNCHANGED <<parVars, buildVars, runVars>>

TapeMove(direction) ==
    /\ ~move_raises(direction)
    /\ move(tape, direction).head \in (-MaxHead)..MaxHead
    /\ tape' = move(tape, direction)
    /\ last' = [op |-> "move", arg |-> direction, before |-> tape]
    /\ UNCHANGED <<parVars, buildVars, runVars>>

TapeMoveRaises(direction) ==
    /\ move_raises(direction)
    /\ tape' = move(tape, direction)
    /\ last' = [op |-> "move_raised", arg |-> direction, before |-> tape]
    /\ UNCHANGED <<parVars, buildVars, runVars>>

\* the calls of run in flight, each with the locals of its own call
Workers == {1, 2}

IdleWorker ==
    [pc |-> "idle", input_string |-> <<>>, max_steps |-> Unset,
     tape |-> Tape(DefaultBlank), current_state |-> "q0", steps |-> 0,
     ids |-> <<>>, result |-> NoResult]

IdleWorkers == [w \in Workers |-> IdleWorker]

InitAll ==
    /\ workers = IdleWorkers
    /\ tape = Tape(DefaultBlank)
    /\ last = [op |-> "new", arg |-> DefaultBlank, before |-> Tape(DefaultBlank)]
    /\ tm = NoTM
    /\ call = NoCall
    /\ error = "none"
    /\ pc = "idle"
    /\ input_string = <<>>
    /\ max_steps = Unset
    /\ current_state = "q0"
    /\ steps = 0
    /\ ids = <<>>
    /\ result = NoResult

NextTape ==
    \/ \E symbol \in InputSymbols : TapeWrite(symbol)
    \/ \E s \in TapeStrings : TapeLoadInput(s)
    \/ \E direction \in TapeMoves : TapeMove(direction)
    \/ \E direction \in TapeMoves : TapeMoveRaises(direction)

SpecTape == InitAll /\ [][NextTape]_vars


(***************************************************************************)
(* Machine definition (turing_machine.py).  A transition table is a        *)
(* function whose domain is a set of <<state, symbol>> keys and whose      *)
(* values are Transition records.                                          *)
(***************************************************************************)
Transition(next_state, write_symbol, mv) ==
    [next_state |-> next_state, write_symbol |-> write_symbol, move |-> mv]

EmptyTable == [key \in {} |-> Transition("q0", "B", UpperS)]

\* dict assignment: entries of later override entries of earlier
Override(earlier, later) ==
    [key \in (DOMAIN earlier) \cup (DOMAIN later) |->
        IF key \in DOMAIN later THEN later[key] ELSE earlier[key]]

init_raises_initial_only(args) ==
    args.initial_state \notin args.states

init_raises(args) ==
    \/ args.initial_state \notin args.states
    \/ ~(args.accept_states \subseteq args.states)
    \/ args.blank_symbol \notin args.tape_alphabet

TuringMachine(args) ==
    [states |-> args.states,
     input_alphabet |-> args.input_alphabet,
     tape_alphabet |-> args.tape_alphabet,
     initial_state |-> args.initial_state,
     accept_states |-> args.accept_states,
     transitions |-> args.transitions,
     blank_symbol |-> args.blank_symbol]

(***************************************************************************)
(* from_yaml_config.  A rule's read and write fields are tagged with       *)
(* whether the YAML value is a list: v is the list, or the one symbol of a *)
(* scalar; blank_symbol = None stands for a configuration without the      *)
(* blank_symbol key.                                                       *)
(***************************************************************************)
Scalar(sym) == [list |-> FALSE, v |-> <<sym>>]
List(syms) == [list |-> TRUE, v |-> syms]

read_symbols(t) == IF t.read.list THEN t.read.v ELSE <<t.read.v[1]>>

write_symbols(t) ==
    IF t.write.list THEN t.write.v
    ELSE [i \in 1..Len(read_symbols(t)) |-> t.write.v[1]]

rule_raises_read_only(t, tape_alphabet) ==
    \/ Len(read_symbols(t)) # Len(write_symbols(t))
    \/ \E i \in 1..Len(read_symbols(t)) :
          read_symbols(t)[i] \notin tape_alphabet

rule_raises(t, tape_alphabet) ==
    \/ Len(read_symbols(t)) # Len(write_symbols(t))
    \/ \E i \in 1..Len(read_symbols(t)) :
          \/ read_symbols(t)[i] \notin tape_alphabet
          \/ write_symbols(t)[i] \notin tape_alphabet

\* the entries one rule assigns; within a rule a later pair overrides
rule_transitions(t) ==
    LET rs == read_symbols(t)
        ws == write_symbols(t)
        lastIndex(r) == SetMax({i \in 1..Len(rs) : rs[i] = r})
    IN  [key \in {<<t.state, rs[i]>> : i \in 1..Len(rs)} |->
            Transition(t.next, ws[lastIndex(key[2])], t.move)]

RECURSIVE yaml_transitions(_)
yaml_transitions(transitions_list) ==
    IF transitions_list = <<>> THEN EmptyTable
    ELSE LET n == Len(transitions_list)
         IN  Override(yaml_transitions(SubSeq(transitions_list, 1, n - 1)),
                      rule_transitions(transitions_list[n]))

yaml_args(config) ==
    [states |-> config.states,
     input_alphabet |-> config.input_alphabet,
     tape_alphabet |-> config.tape_alphabet,
     initial_state |-> config.initial_state,
     accept_states |-> config.accept_states,
     transitions |-> yaml_transitions(config.transitions),
     blank_symbol |-> IF config.blank_symbol = None THEN DefaultBlank
                                                    ELSE config.blank_symbol]

yaml_rules_raise(config) ==
    \E k \in 1..Len(config.transitions) :
        rule_raises(config.transitions[k], config.tape_alphabet)

from_yaml_config_raises(config) ==
    \/ yaml_rules_raise(config)
    \/ init_raises(yaml_args(config))

(***************************************************************************)
(* Construction on its own: the constructor and the builder applied to     *)
(* arguments drawn from bounded sets.  call records the last call.         *)
(***************************************************************************)
Construct(args) ==
    /\ call' = [op |-> "init", args |-> args]
    /\ IF init_raises(args)
       THEN tm' = NoTM /\ error' = "definition"
       ELSE tm' = TuringMachine(args) /\ error' = "none"
    /\ UNCHANGED <<parVars, tapeVars, runVars>>

FromYamlConfig(config) ==
    /\ call' = [op |-> "from_yaml_config", config |-> config]
    /\ IF from_yaml_config_raises(config)
       THEN tm' = NoTM /\ error' = "definition"
       ELSE tm' = TuringMachine(yaml_args(config)) /\ error' = "none"
    /\ UNCHANGED <<parVars, tapeVars, runVars>>

RECURSIVE TablesUpTo(_, _, _)
TablesUpTo(n, keys, values) ==
    IF n = 0 THEN {EmptyTable}
    ELSE LET smaller == TablesUpTo(n - 1, keys, values)
         IN  smaller \cup
             {Override(tbl, [key \in {k} |-> v]) :
                 tbl \in smaller, k \in keys, v \in values}

AllTransitions ==
    {Transition(q, w, m) : q \in StateIds, w \in TapeSymbols, m \in Moves}

CtorTables ==
    {EmptyTable, [key \in {<<"q0", "a">>} |-> Transition("qf", "a", UpperS)]}

CtorArgs ==
    [states : SUBSET StateIds,
     input_alphabet : {{"a"}},
     tape_alphabet : SUBSET TapeSymbols,
     initial_state : StateIds,
     accept_states : SUBSET StateIds,
     transitions : CtorTables,
     blank_symbol : TapeSymbols]

YamlSymbols == {"a", "c"}
YamlForms ==
    {Scalar(sym) : sym \in YamlSymbols}
        \cup {List(syms) : syms \in SeqsUpTo(MaxList, YamlSymbols)}

YamlRules ==
    [state : {"q0"}, read : YamlForms, write : YamlForms,
     move : {UpperR}, next : {"qf"}]

YamlConfigs ==
    [states : {StateIds},
     input_alphabet : {{"a"}},
     tape_alphabet : {{"a", "B"}, {"a", "c"}},
     initial_state : {"q0"},
     accept_states : {{"qf"}},
     transitions : SeqsUpTo(MaxYamlRules, YamlRules),
     blank_symbol : {None, "a"}]

\* a machine is constructed once, by the constructor or by the builder
ConstructOnce ==
    /\ call = NoCall
    /\ \E args \in CtorArgs : Construct(args)

FromYamlConfigOnce ==
    /\ call = NoCall
    /\ \E config \in YamlConfigs : FromYamlConfig(config)

NextBuild ==
    \/ ConstructOnce
    \/ FromYamlConfigOnce

SpecBuild == InitAll /\ [][NextBuild]_vars

(***************************************************************************)
(* run (turing_machine.py).  The loop is taken one iteration at a time;   *)
(* pc is "idle" before the call, "loop" at the head of the while loop,     *)
(* "done" once the RunResult is returned and "raised" when move raised.    *)
(***************************************************************************)
Sentinel == ">>> Límite de pasos alcanzado, posible lazo infinito."

format_id_state_after(t, state) ==
    LET symbols == get_view(t)[1]
        head_pos == get_view(t)[2]
        parts == [i \in 1..Len(symbols) |->
                    IF i - 1 = head_pos
                    THEN symbols[i] \o "[" \o state \o "]"
                    ELSE symbols[i]]
    IN  Join(parts)

format_id(t, state) ==
    LET symbols == get_view(t)[1]
        head_pos == get_view(t)[2]
        parts == [i \in 1..Len(symbols) |->
                    IF i - 1 = head_pos
                    THEN "[" \o state \o "]" \o symbols[i]
                    ELSE symbols[i]]
    IN  Join(parts)

accepted_initial(m, state) == m.initial_state \in m.accept_states

accepted(m, state) == state \in m.accept_states

RunResult(input, state, t, idseq) ==
    [input_string |-> input,
     accepted |-> accepted(tm, state),
     final_state |-> state,
     final_tape |-> get_string(t),
     ids |-> idseq]

limit_reached_when_exceeded(ms, n) == ms.set /\ n > ms.v

limit_reached(ms, n) == ms.set /\ n >= ms.v

key == <<current_state, read(tape)>>
transition == tm.transitions[key]

\* lines 73-78: fresh tape, input loaded, initial id recorded
RunStart(input, ms) ==
    /\ pc = "idle"
    /\ tm # NoTM
    /\ LET t == load_input(Tape(tm.blank_symbol), input)
       IN  /\ tape' = t
           /\ ids' = <<format_id(t, tm.initial_state)>>
    /\ last' = [op |-> "load_input", arg |-> input, before |-> Tape(tm.blank_symbol)]
    /\ input_string' = input
    /\ max_steps' = ms
    /\ current_state' = tm.initial_state
    /\ steps' = 0
    /\ pc' = "loop"
    /\ UNCHANGED <<parVars, buildVars, result>>

RunHaltChecksLimit ==
    /\ pc = "loop"
    /\ key \notin DOMAIN tm.transitions
    /\ pc' = "done"
    /\ LET idseq == IF limit_reached(max_steps, steps) THEN Append(ids, Sentinel)
                                                        ELSE ids
       IN  /\ ids' = idseq
           /\ result' = RunResult(input_string, current_state, tape, idseq)
    /\ UNCHANGED <<parVars, tapeVars, buildVars, input_string, max_steps,
                   current_state, steps>>

\* lines 81-87 and 102-111: no transition for the key, the loop breaks and
\* run returns
RunHalt ==
    /\ pc = "loop"
    /\ key \notin DOMAIN tm.transitions
    /\ pc' = "done"
    /\ result' = RunResult(input_string, current_state, tape, ids)
    /\ UNCHANGED <<parVars, tapeVars, buildVars, input_string, max_steps,
                   current_state, steps, ids>>

\* lines 81-97: a transition is applied and the loop goes round
RunStep ==
    /\ pc = "loop"
    /\ key \in DOMAIN tm.transitions
    /\ ~move_raises(transition.move)
    /\ steps < MaxRun
    /\ ~limit_reached(max_steps, steps + 1)
    /\ LET t == move(write(tape, transition.write_symbol), transition.move)
       IN  /\ tape' = t
           /\ ids' = Append(ids, format_id(t, transition.next_state))
    /\ last' = [op |-> "step", arg |-> transition, before |-> tape]
    /\ current_state' = transition.next_state
    /\ steps' = steps + 1
    /\ UNCHANGED <<parVars, buildVars, pc, input_string, max_steps, result>>

RunLimitNoSentinel ==
    /\ pc = "loop"
    /\ key \in DOMAIN tm.transitions
    /\ ~move_raises(transition.move)
    /\ limit_reached(max_steps, steps + 1)
    /\ LET t == move(write(tape, transition.write_symbol), transition.move)
           idseq == Append(ids, format_id(t, transition.next_state))
       IN  /\ tape' = t
           /\ ids' = idseq
           /\ result' = RunResult(input_string, transition.next_state, t, idseq)
    /\ last' = [op |-> "step", arg |-> transition, before |-> tape]
    /\ current_state' = transition.next_state
    /\ steps' = steps + 1
    /\ pc' = "done"
    /\ UNCHANGED <<parVars, buildVars, input_string, max_steps>>

RunLimitOnlyIfApplicable ==
    /\ pc = "loop"
    /\ key \in DOMAIN tm.transitions
    /\ ~move_raises(transition.move)
    /\ limit_reached(max_steps, steps + 1)
    /\ LET t == move(write(tape, transition.write_symbol), transition.move)
           withId == Append(ids, format_id(t, transition.next_state))
           idseq == IF <<transition.next_state, read(t)>> \in DOMAIN tm.transitions
                    THEN Append(withId, Sentinel)
                    ELSE withId
       IN  /\ tape' = t
           /\ ids' = idseq
           /\ result' = RunResult(input_string, transition.next_state, t, idseq)
    /\ last' = [op |-> "step", arg |-> transition, before |-> tape]
    /\ current_state' = transition.next_state
    /\ steps' = steps + 1
    /\ pc' = "done"
    /\ UNCHANGED <<parVars, buildVars, input_string, max_steps>>

\* lines 81-111: a transition is applied, the step limit is reached, the
\* sentinel is appended and run returns
RunLimit ==
    /\ pc = "loop"
    /\ key \in DOMAIN tm.transitions
    /\ ~move_raises(transition.move)
    /\ limit_reached(max_steps, steps + 1)
    /\ LET t == move(write(tape, transition.write_symbol), transition.move)
           idseq == Append(Append(ids, format_id(t, transition.next_state)),
                           Sentinel)
       IN  /\ tape' = t
           /\ ids' = idseq
           /\ result' = RunResult(input_string, transition.next_state, t, idseq)
    /\ last' = [op |-> "step", arg |-> transition, before |-> tape]
    /\ current_state' = transition.next_state
    /\ steps' = steps + 1
    /\ pc' = "done"
    /\ UNCHANGED <<parVars, buildVars, input_string, max_steps>>

\* lines 90-91: the symbol is written, then move raises ValueError and the
\* error leaves run
RunRaise ==
    /\ pc = "loop"
    /\ key \in DOMAIN tm.transitions
    /\ move_raises(transition.move)
    /\ tape' = move(write(tape, transition.write_symbol), transition.move)
    /\ last' = [op |-> "move_raised", arg |-> transition.move, before |-> tape]
    /\ pc' = "raised"
    /\ error' = "move"
    /\ UNCHANGED <<parVars, tm, call, input_string, max_steps, current_state, steps,
                   ids, result>>

RunArgs ==
    [states : {{"q0"}, StateIds},
     input_alphabet : {{"a"}},
     tape_alphabet : {TapeSymbols},
     initial_state : {"q0"},
     accept_states : {{"q0"}, {"qf"}},
     transitions : TablesUpTo(MaxRules, StateIds \X TapeSymbols, AllTransitions),
     blank_symbol : {DefaultBlank}]

MaxStepsValues == {Unset} \cup {Limit(n) : n \in 0..MaxStepsArg}

\* the state after a machine has been constructed
Init ==
    /\ \E args \in RunArgs :
          /\ ~init_raises(args)
          /\ tm = TuringMachine(args)
          /\ call = [op |-> "init", args |-> args]
    /\ error = "none"
    /\ workers = IdleWorkers
    /\ tape = Tape(DefaultBlank)
    /\ last = [op |-> "new", arg |-> DefaultBlank, before |-> Tape(DefaultBlank)]
    /\ pc = "idle"
    /\ input_string = <<>>
    /\ max_steps = Unset
    /\ current_state = "q0"
    /\ steps = 0
    /\ ids = <<>>
    /\ result = NoResult

Next ==
    \/ \E input \in InputStrings, ms \in MaxStepsValues : RunStart(input, ms)
    \/ RunHalt
    \/ RunStep
    \/ RunLimit
    \/ RunRaise

Spec == Init /\ [][Next]_vars

(***************************************************************************)
(* Several calls of run on one machine (main.py runs one per input; the    *)
(* calls may also be in flight together).  Each call has its own locals;   *)
(* the machine is the only object the calls share.                         *)
(***************************************************************************)
worker_tape_of_first(ws, w) == ws[1].tape

\* line 73: the tape is a local of the call
worker_tape(ws, w) == ws[w].tape

worker_key(w) == <<workers[w].current_state, read(worker_tape(workers, w))>>
worker_transition(w) == tm.transitions[worker_key(w)]

WorkerStart(w, input, ms) ==
    /\ workers[w].pc = "idle"
    /\ tm # NoTM
    /\ LET t == load_input(Tape(tm.blank_symbol), input)
       IN  workers' = [workers EXCEPT ![w] =
              [pc |-> "loop", input_string |-> input, max_steps |-> ms,
               tape |-> t, current_state |-> tm.initial_state, steps |-> 0,
               ids |-> <<format_id(t, tm.initial_state)>>,
               result |-> NoResult]]
    /\ UNCHANGED <<tapeVars, buildVars, runVars>>

WorkerHalt(w) ==
    /\ workers[w].pc = "loop"
    /\ worker_key(w) \notin DOMAIN tm.transitions
    /\ workers' = [workers EXCEPT
          ![w].pc = "done",
          ![w].result = RunResult(workers[w].input_string,
                                  workers[w].current_state,
                                  worker_tape(workers, w), workers[w].ids)]
    /\ UNCHANGED <<tapeVars, buildVars, runVars>>

WorkerStep(w) ==
    /\ workers[w].pc = "loop"
    /\ worker_key(w) \in DOMAIN tm.transitions
    /\ ~move_raises(worker_transition(w).move)
    /\ workers[w].steps < MaxRun
    /\ ~limit_reached(workers[w].max_steps, workers[w].steps + 1)
    /\ LET tr == worker_transition(w)
           t == move(write(worker_tape(workers, w), tr.write_symbol), tr.move)
       IN  workers' = [workers EXCEPT
              ![w].tape = t,
              ![w].current_state = tr.next_state,
              ![w].ids = Append(workers[w].ids, format_id(t, tr.next_state)),
              ![w].steps = workers[w].steps + 1]
    /\ UNCHANGED <<tapeVars, buildVars, runVars>>

WorkerLimit(w) ==
    /\ workers[w].pc = "loop"
    /\ worker_key(w) \in DOMAIN tm.transitions
    /\ ~move_raises(worker_transition(w).move)
    /\ limit_reached(workers[w].max_steps, workers[w].steps + 1)
    /\ LET tr == worker_transition(w)
           t == move(write(worker_tape(workers, w), tr.write_symbol), tr.move)
           idseq == Append(Append(workers[w].ids, format_id(t, tr.next_state)),
                           Sentinel)
       IN  workers' = [workers EXCEPT
              ![w].tape = t,
              ![w].current_state = tr.next_state,
              ![w].ids = idseq,
              ![w].steps = workers[w].steps + 1,
              ![w].pc = "done",
              ![w].result = RunResult(workers[w].input_string, tr.next_state,
                                      t, idseq)]
    /\ UNCHANGED <<tapeVars, buildVars, runVars>>

WorkerRaise(w) ==
    /\ workers[w].pc = "loop"
    /\ worker_key(w) \in DOMAIN tm.transitions
    /\ move_raises(worker_transition(w).move)
    /\ workers' = [workers EXCEPT
          ![w].tape = move(write(worker_tape(workers, w),
                                 worker_transition(w).write_symbol),
                           worker_transition(w).move),
          ![w].pc = "raised"]
    /\ UNCHANGED <<tapeVars, buildVars, runVars>>

(***************************************************************************)
(* run as one call, taken from its first line to its last: the outcome of  *)
(* running an input alone.  status is "done" with the RunResult,           *)
(* "raised", or "running" when the bound of the model is reached.          *)
(***************************************************************************)
RECURSIVE run_loop(_, _, _, _, _, _)
run_loop(input, ms, t, state, n, idseq) ==
    LET k == <<state, read(t)>>
    IN  IF k \notin DOMAIN tm.transitions
        THEN [status |-> "done", result |-> RunResult(input, state, t, idseq)]
        ELSE LET tr == tm.transitions[k]
                 t2 == move(write(t, tr.write_symbol), tr.move)
                 ids2 == Append(idseq, format_id(t2, tr.next_state))
             IN  IF move_raises(tr.move)
                 THEN [status |-> "raised", result |-> NoResult]
                 ELSE IF limit_reached(ms, n + 1)
                 THEN [status |-> "done",
                       result |-> RunResult(input, tr.next_state, t2,
                                            Append(ids2, Sentinel))]
                 ELSE IF n >= MaxRun
                 THEN [status |-> "running", result |-> NoResult]
                 ELSE run_loop(input, ms, t2, tr.next_state, n + 1, ids2)

run(input, ms) ==
    LET t == load_input(Tape(tm.blank_symbol), input)
    IN  run_loop(input, ms, t, tm.initial_state, 0,
                 <<format_id(t, tm.initial_state)>>)

SampleTables ==
    {EmptyTable,
     [k \in {<<"q0", "a">>} |-> Transition("q0", "a", UpperS)],
     [k \in {<<"q0", "a">>} |-> Transition("qf", "B", UpperR)],
     [k \in {<<"q0", "B">>} |-> Transition("q0", "a", UpperL)],
     [k \in {<<"q0", "a">>} |-> Transition("q0", "a", UpperX)]}

SampleArgs ==
    [states : {StateIds},
     input_alphabet : {{"a"}},
     tape_alphabet : {TapeSymbols},
     initial_state : {"q0"},
     accept_states : {{"qf"}},
     transitions : SampleTables,
     blank_symbol : {DefaultBlank}]

\* the state after one of the sample machines has been constructed
InitSample ==
    /\ \E args \in SampleArgs :
          /\ ~init_raises(args)
          /\ tm = TuringMachine(args)
          /\ call = [op |-> "init", args |-> args]
    /\ error = "none"
    /\ workers = IdleWorkers
    /\ tape = Tape(DefaultBlank)
    /\ last = [op |-> "new", arg |-> DefaultBlank, before |-> Tape(DefaultBlank)]
    /\ pc = "idle"
    /\ input_string = <<>>
    /\ max_steps = Unset
    /\ current_state = "q0"
    /\ steps = 0
    /\ ids = <<>>
    /\ result = NoResult

NextPar ==
    \/ \E w \in Workers, input \in InputStrings, ms \in MaxStepsValues :
          WorkerStart(w, input, ms)
    \/ \E w \in Workers : WorkerHalt(w)
    \/ \E w \in Workers : WorkerStep(w)
    \/ \E w \in Workers : WorkerLimit(w)
    \/ \E w \in Workers : WorkerRaise(w)

SpecPar == InitSample /\ [][NextPar]_vars

\* machines for the termination claims: the sample machines, one that scans
\* Right for ever, and one that erases its input and then stops
LiveTables ==
    SampleTables \cup
    {[k \in {<<"q0", "a">>, <<"q0", "B">>} |->
         IF k[2] = "a" THEN Transition("q0", "a", UpperR)
                       ELSE Transition("q0", "B", UpperR)],
     [k \in {<<"q0", "a">>, <<"q0", "B">>} |->
         IF k[2] = "a" THEN Transition("q0", "B", UpperR)
                       ELSE Transition("qf", "B", UpperS)]}

LiveArgs ==
    [states : {StateIds},
     input_alphabet : {{"a"}},
     tape_alphabet : {TapeSymbols},
     initial_state : {"q0"},
     accept_states : {{"qf"}},
     transitions : LiveTables,
     blank_symbol : {DefaultBlank}]

\* the state after one of these machines has been constructed
InitLive ==
    /\ \E args \in LiveArgs :
          /\ ~init_raises(args)
          /\ tm = TuringMachine(args)
          /\ call = [op |-> "init", args |-> args]
    /\ error = "none"
    /\ workers = IdleWorkers
    /\ tape = Tape(DefaultBlank)
    /\ last = [op |-> "new", arg |-> DefaultBlank, before |-> Tape(DefaultBlank)]
    /\ pc = "idle"
    /\ input_string = <<>>
    /\ max_steps = Unset
    /\ current_state = "q0"
    /\ steps = 0
    /\ ids = <<>>
    /\ result = NoResult

\* the body of run is sequential code: once the call has started, its next
\* iteration, return or error is eventually taken
RunProgress == RunHalt \/ RunStep \/ RunLimit \/ RunRaise

SpecLive == InitLive /\ [][Next]_vars /\ WF_vars(RunProgress)

(***************************************************************************)
(* Claims about the tape on its own.                                       *)
(***************************************************************************)

\* C1: after any sequence of load_input, write and move no stored entry holds
\* the blank symbol, and write(blank_symbol) leaves no entry at the head.
TapeSparsity ==
    /\ \A p \in DOMAIN tape.cells : tape.cells[p] # tape.blank_symbol
    /\ (last.op = "write" /\ last.arg = tape.blank_symbol)
          => tape.head \notin DOMAIN tape.cells

\* C3 as stated: load_input(s) clears the stored cells, sets head to 0, stores
\* s[i] at position i, and get_string() then returns exactly s, for every s.
LoadInputRoundTrip ==
    last.op = "load_input" =>
        /\ DOMAIN tape.cells = 0..(Len(last.arg) - 1)
        /\ \A i \in 0..(Len(last.arg) - 1) : tape.cells[i] = last.arg[i + 1]
        /\ tape.head = 0
        /\ get_string(tape) = Join(last.arg)

\* C3 amended: as C3 for every non-empty s; for the empty string the cells
\* are cleared, head is 0 and get_string() returns the blank symbol alone.
LoadInputRoundTripNonEmpty ==
    last.op = "load_input" =>
        /\ DOMAIN tape.cells = 0..(Len(last.arg) - 1)
        /\ \A i \in 0..(Len(last.arg) - 1) : tape.cells[i] = last.arg[i + 1]
        /\ tape.head = 0
        /\ get_string(tape) = IF last.arg = <<>> THEN tape.blank_symbol
                                                 ELSE Join(last.arg)

\* C3 witness: a string containing the blank loaded over a tape that had
\* a cell outside the new string and a moved head.
LoadInputRoundTripWitness ==
    /\ last.op = "load_input"
    /\ last.arg = <<"B", "a">>
    /\ last.before.head # 0
    /\ (DOMAIN last.before.cells) \ (0..1) # {}
    /\ get_string(tape) = "Ba"


(***************************************************************************)
(* Claims about construction.                                              *)
(***************************************************************************)
RunStartEnabled ==
    ENABLED (\E input \in InputStrings, ms \in MaxStepsValues : RunStart(input, ms))

\* C8: the constructor fails with a definition error and leaves no machine to
\* run exactly when initial_state is not in states, or accept_states is not a
\* subset of states, or blank_symbol is not in tape_alphabet; otherwise it
\* succeeds with the machine of its arguments.
ConstructorValidates ==
    call.op = "init" =>
        LET a == call.args
            wellFormed ==
                /\ \E q \in a.states : q = a.initial_state
                /\ \A q \in a.accept_states : q \in a.states
                /\ \E sym \in a.tape_alphabet : sym = a.blank_symbol
        IN  /\ ~wellFormed => (error = "definition" /\ tm = NoTM /\ ~RunStartEnabled)
            /\ wellFormed => /\ error = "none"
                             /\ tm # NoTM
                             /\ tm.states = a.states
                             /\ tm.initial_state = a.initial_state
                             /\ tm.accept_states = a.accept_states
                             /\ tm.blank_symbol = a.blank_symbol
                             /\ tm.transitions = a.transitions
                             /\ RunStartEnabled

\* C8 witness: a construction that failed only because an accept state is
\* not a state.
ConstructorValidatesWitness ==
    /\ call.op = "init"
    /\ call.args.initial_state \in call.args.states
    /\ call.args.blank_symbol \in call.args.tape_alphabet
    /\ ~(call.args.accept_states \subseteq call.args.states)
    /\ error = "definition"
    /\ tm = NoTM

Range(f) == {f[x] : x \in DOMAIN f}

ReadCount(t) == IF t.read.list THEN Len(t.read.v) ELSE 1

LengthMismatch(t) == t.write.list /\ Len(t.write.v) # ReadCount(t)

ExpandedSymbols(t) ==
    Range(t.read.v)
        \cup (IF t.write.list \/ ReadCount(t) > 0 THEN Range(t.write.v) ELSE {})

\* C9: the builder fails with a definition error and returns no machine
\* whenever a rule's read and write lengths differ after broadcasting a scalar
\* write, or an expanded read or write symbol is outside tape_alphabet; every
\* machine it returns has only tape_alphabet symbols as key symbols and write
\* symbols.
BuilderValidates ==
    call.op = "from_yaml_config" =>
        LET c == call.config
            badRule(t) == \/ LengthMismatch(t)
                          \/ ~(ExpandedSymbols(t) \subseteq c.tape_alphabet)
        IN  /\ (\E k \in 1..Len(c.transitions) : badRule(c.transitions[k]))
                  => (error = "definition" /\ tm = NoTM)
            /\ tm # NoTM =>
                  \A k \in DOMAIN tm.transitions :
                      /\ k[2] \in tm.tape_alphabet
                      /\ tm.transitions[k].write_symbol \in tm.tape_alphabet

\* C9 witness: a rule whose scalar write, broadcast over a two-symbol read
\* list, is outside the tape alphabet, and the builder failed.
BuilderValidatesWitness ==
    /\ call.op = "from_yaml_config"
    /\ Len(call.config.transitions) >= 1
    /\ call.config.transitions[1].read = List(<<"a", "a">>)
    /\ call.config.transitions[1].write = Scalar("c")
    /\ call.config.tape_alphabet = {"a", "B"}
    /\ call.config.blank_symbol = None
    /\ error = "definition"
    /\ tm = NoTM

(***************************************************************************)
(* Claims about run.                                                       *)
(***************************************************************************)
LoadedTape == load_input(Tape(tm.blank_symbol), input_string)

\* C2: run with max_steps = 0 returns with ids exactly the initial
\* description followed by the sentinel, final_state the initial state and
\* the tape the loaded input, for every machine and input.
MaxStepsZeroAppliesNothing ==
    (max_steps = Limit(0) /\ pc \in {"done", "raised"}) =>
        /\ pc = "done"
        /\ result.ids = <<format_id(LoadedTape, tm.initial_state), Sentinel>>
        /\ result.final_state = tm.initial_state
        /\ tape = LoadedTape

EmptyInputNoTransition ==
    /\ pc = "done"
    /\ input_string = <<>>
    /\ <<tm.initial_state, tm.blank_symbol>> \notin DOMAIN tm.transitions

\* C4 as stated: the empty input on a machine without a transition for
\* (initial_state, blank) gives ids = ["[q0]B"], final_state the initial
\* state, accepted false unless the initial state accepts, final_tape "".
EmptyInputHaltsEmptyTape ==
    EmptyInputNoTransition =>
        /\ result.ids = <<"[q0]B">>
        /\ result.final_state = tm.initial_state
        /\ (tm.initial_state \notin tm.accept_states => result.accepted = FALSE)
        /\ result.final_tape = ""

\* C4 amended: as C4, but final_tape is "B", the blank under the head.
EmptyInputHaltsBlankTape ==
    EmptyInputNoTransition =>
        /\ result.ids = <<"[q0]B">>
        /\ result.final_state = tm.initial_state
        /\ (tm.initial_state \notin tm.accept_states => result.accepted = FALSE)
        /\ result.final_tape = "B"

\* C4 witness: such a run has returned, on a machine that has a transition
\* for another key and whose initial state does not accept.
EmptyInputHaltsWitness ==
    /\ EmptyInputNoTransition
    /\ DOMAIN tm.transitions # {}
    /\ tm.initial_state \notin tm.accept_states
    /\ result.accepted = FALSE

\* C5: however the run halted, accepted is true exactly when final_state is
\* in accept_states, and final_state is the state at which the loop stopped.
AcceptanceIsMembership ==
    pc = "done" =>
        /\ result.accepted = (\E q \in tm.accept_states : q = result.final_state)
        /\ result.final_state = current_state

\* C5 witness: a run stopped by the step limit in an accepting state that is
\* not the initial state.
AcceptanceIsMembershipWitness ==
    /\ pc = "done"
    /\ result.ids[Len(result.ids)] = Sentinel
    /\ result.final_state # tm.initial_state
    /\ result.accepted = TRUE

\* C6: a machine with an empty transition function returns right after the
\* initial configuration, for every input and every max_steps: ids has one
\* entry, final_state is the initial state and the tape is never written.
EmptyMachineHaltsAtOnce ==
    (DOMAIN tm.transitions = {} /\ pc # "idle") =>
        /\ pc \in {"loop", "done"}
        /\ Len(ids) = 1
        /\ steps = 0
        /\ tape = LoadedTape
        /\ pc = "done" => /\ Len(result.ids) = 1
                          /\ result.final_state = tm.initial_state

\* C6 witness: such a machine has returned from a run with max_steps = 0 on
\* a non-empty input.
EmptyMachineHaltsAtOnceWitness ==
    /\ DOMAIN tm.transitions = {}
    /\ pc = "done"
    /\ max_steps = Limit(0)
    /\ input_string = <<"c">>
    /\ Len(result.ids) = 1

CurrentIdIndex == IF ids[Len(ids)] = Sentinel THEN Len(ids) - 1 ELSE Len(ids)

\* C7: the id of the current configuration is the view's symbols
\* concatenated without separators with "[state]" once, right before the
\* symbol at the head index; the machine (q0,a)->(qf,a,S) on "a" gives
\* ids = ["[q0]a", "[qf]a"], final_state qf, accepted, final_tape "a".
IdFormat ==
    /\ pc \in {"loop", "done"} =>
          LET symbols == get_view(tape)[1]
              h == get_view(tape)[2]
          IN  /\ h \in 0..(Len(symbols) - 1)
              /\ ids[CurrentIdIndex] =
                    Join(SubSeq(symbols, 1, h)) \o "[" \o current_state \o "]"
                       \o Join(SubSeq(symbols, h + 1, Len(symbols)))
    /\ ( /\ pc = "done"
         /\ tm.transitions = [k \in {<<"q0", "a">>} |-> Transition("qf", "a", UpperS)]
         /\ tm.accept_states = {"qf"}
         /\ input_string = <<"a">>
         /\ max_steps = Unset )
          => /\ result.ids = <<"[q0]a", "[qf]a">>
             /\ result.final_state = "qf"
             /\ result.accepted = TRUE
             /\ result.final_tape = "a"

\* C7 witness: a configuration whose head is inside the view, after a step
\* to the right.
IdFormatWitness ==
    /\ pc = "loop"
    /\ steps = 1
    /\ input_string = <<"a">>
    /\ ids = <<"[q0]a", "a[qf]B">>

AllMovesValid ==
    \A k \in DOMAIN tm.transitions :
        \E d \in {UpperL, UpperR, UpperS, LowerL, LowerR, LowerS, LongS} :
            tm.transitions[k].move = d

\* C10: on a machine whose transitions all carry a valid move no input makes
\* run fail: no error is raised, an iteration can always be taken, the call
\* returns a RunResult, and a head outside the stored cells reads the blank.
RunToleratesAnyInput ==
    AllMovesValid =>
        /\ pc # "raised"
        /\ error = "none"
        /\ pc = "loop" =>
              \/ key \notin DOMAIN tm.transitions
              \/ ~move_raises(transition.move)
        /\ pc = "done" => (result # NoResult /\ result.input_string = input_string)
        /\ (pc = "loop" /\ tape.head \notin DOMAIN tape.cells) => key[2] = tm.blank_symbol

\* C10 witness: a run on an input with a symbol outside both alphabets
\* has returned, on a machine that has a transition.
RunToleratesAnyInputWitness ==
    /\ AllMovesValid
    /\ pc = "done"
    /\ input_string = <<"c">>
    /\ DOMAIN tm.transitions # {}
    /\ result.ids = <<"[q0]c">>
    /\ result.final_tape = "c"


(***************************************************************************)
(* Claims about several runs of one machine.                               *)
(***************************************************************************)
WorkerAgreesWithRunAlone(w) ==
    LET alone == run(workers[w].input_string, workers[w].max_steps)
    IN  /\ workers[w].pc = "done" =>
              (alone.status = "done" /\ workers[w].result = alone.result)
        /\ workers[w].pc = "raised" => alone.status = "raised"

\* C11: run never modifies the machine definition, and however the steps of
\* the runs in flight are interleaved (one after the other in either order
\* included) each run ends with the result of running its input alone.
RunsAreIndependent ==
    /\ [](\A w \in Workers : workers[w].pc # "idle" => WorkerAgreesWithRunAlone(w))
    /\ [][tm' = tm]_vars

\* C11 witness: two runs of one machine have returned, on different inputs
\* and with different results, the second after applying a transition that
\* wrote its tape.
RunsAreIndependentWitness ==
    /\ workers[1].pc = "done"
    /\ workers[2].pc = "done"
    /\ workers[1].input_string = <<>>
    /\ workers[2].input_string = <<"a">>
    /\ workers[2].steps >= 1
    /\ workers[2].tape.cells # workers[1].tape.cells
    /\ workers[1].result.final_tape # workers[2].result.final_tape


(***************************************************************************)
(* Claims about head movement and the trace of a run.                      *)
(***************************************************************************)
Left == {UpperL, LowerL}
Right == {UpperR, LowerR}
Stay == {UpperS, LowerS, LongS}

SameCellsExceptAt(t1, t2, pos) ==
    /\ (DOMAIN t1.cells) \ {pos} = (DOMAIN t2.cells) \ {pos}
    /\ \A p \in (DOMAIN t1.cells) \ {pos} : t1.cells[p] = t2.cells[p]

MoveOutcome ==
    /\ last.op = "step" =>
          /\ last.arg.move \in Left \cup Right \cup Stay
          /\ last.arg.move \in Left => tape.head = last.before.head - 1
          /\ last.arg.move \in Right => tape.head = last.before.head + 1
          /\ last.arg.move \in Stay => tape.head = last.before.head
    /\ last.op = "move_raised" =>
          /\ last.arg \notin Left \cup Right \cup Stay
          /\ tape.head = last.before.head
          /\ SameCellsExceptAt(tape, last.before, last.before.head)
          /\ pc = "raised"
    /\ pc = "raised" =>
          /\ last.op = "move_raised"
          /\ error = "move"
          /\ result = NoResult
          /\ Len(ids) = steps + 1

\* C12: a move to the Left takes 1 from head, to the Right adds 1, Stay
\* leaves it; any other direction raises with head and cells as move found
\* them, and in run the error leaves the call at the step that applies the
\* transition, with no RunResult.
MoveIsLeftRightStayOrFatal ==
    /\ []MoveOutcome
    /\ [][(pc = "loop" /\ key \in DOMAIN tm.transitions
              /\ transition.move \notin Left \cup Right \cup Stay)
            => (pc' = "raised" /\ result' = NoResult)]_vars

\* C12 witness: a run raised on the direction "X" of the transition it was
\* applying, after the write of that transition had erased the cell at 0.
MoveIsLeftRightStayOrFatalWitness ==
    /\ pc = "raised"
    /\ last.arg = UpperX
    /\ input_string = <<"a">>
    /\ 0 \notin DOMAIN tape.cells
    /\ tape.head = 0
    /\ result = NoResult


(***************************************************************************)
(* Claims about write, move and the view of the tape on its own.           *)
(***************************************************************************)
Unwritten(t) ==
    [t EXCEPT !.cells = [p \in (DOMAIN t.cells) \ {t.head} |-> t.cells[p]]]

\* C13: after write(blank_symbol) at any head position of any tape, read()
\* returns the blank symbol, as it does on a tape with no entry there.
BlankWriteReadsBlank ==
    (last.op = "write" /\ last.arg = tape.blank_symbol) =>
        /\ read(tape) = tape.blank_symbol
        /\ read(tape) = read(Unwritten(last.before))
        /\ SameCellsExceptAt(tape, last.before, tape.head)

\* C13 witness: the blank was written over a stored non-blank symbol, away
\* from position 0.
BlankWriteReadsBlankWitness ==
    /\ last.op = "write"
    /\ last.arg = tape.blank_symbol
    /\ tape.head = -1
    /\ tape.head \in DOMAIN last.before.cells
    /\ last.before.cells[tape.head] = "a"
    /\ read(tape) = "B"

\* C14: a move to the Left is undone by a move to the Right and a move to
\* the Right by a move to the Left; Stay leaves head where it was; none of
\* them changes a stored cell.
MoveInverse ==
    last.op = "move" =>
        /\ tape.cells = last.before.cells
        /\ last.arg \in Left =>
              (move(tape, UpperR).head = last.before.head
                  /\ move(tape, UpperR).cells = last.before.cells)
        /\ last.arg \in Right =>
              (move(tape, UpperL).head = last.before.head
                  /\ move(tape, UpperL).cells = last.before.cells)
        /\ last.arg \in Stay =>
              (tape.head = last.before.head /\ move(tape, UpperS) = tape)

\* C14 witness: the head has just moved Left to a negative position on a
\* tape with stored cells.
MoveInverseWitness ==
    /\ last.op = "move"
    /\ last.arg = UpperL
    /\ last.before.head = 0
    /\ tape.head = -1
    /\ DOMAIN tape.cells = {0, 1}

\* C15: get_view returns the symbols of the positions from the least to the
\* greatest of the stored positions and head, blank where nothing is
\* stored, and an index h inside the sequence whose symbol is read(); with
\* no stored cell the sequence is the one blank under the head.
ViewIsUsedRange ==
    LET symbols == get_view(tape)[1]
        h == get_view(tape)[2]
        used == (DOMAIN tape.cells) \cup {tape.head}
        lo == CHOOSE x \in used : \A y \in used : x <= y
        hi == CHOOSE x \in used : \A y \in used : x >= y
    IN  /\ Len(symbols) = hi - lo + 1
        /\ \A p \in lo..hi :
              symbols[p - lo + 1] = IF p \in DOMAIN tape.cells THEN tape.cells[p]
                                                               ELSE tape.blank_symbol
        /\ h >= 0
        /\ h < Len(symbols)
        /\ symbols[h + 1] = read(tape)
        /\ h = tape.head - lo
        /\ DOMAIN tape.cells = {} => symbols = <<tape.blank_symbol>>

\* C15 witness: the head stands left of the stored cells, so the view
\* starts with the blank under the head.
ViewIsUsedRangeWitness ==
    /\ tape.head = -1
    /\ DOMAIN tape.cells = {1}
    /\ tape.cells[1] = "c"
    /\ get_view(tape) = <<<<"B", "B", "c">>, 0>>


(***************************************************************************)
(* Claims about the sequence of descriptions and the step limit.           *)
(***************************************************************************)
EndsWithSentinel == ids[Len(ids)] = Sentinel

Descriptions == IF EndsWithSentinel THEN SubSeq(ids, 1, Len(ids) - 1) ELSE ids

IdsShape ==
    /\ Len(Descriptions) = steps + 1
    /\ \A i \in 1..Len(Descriptions) : Descriptions[i] # Sentinel
    /\ Descriptions[1] = format_id(LoadedTape, tm.initial_state)
    /\ Descriptions[steps + 1] = format_id(tape, current_state)
    /\ EndsWithSentinel <=> (max_steps.set /\ steps = max_steps.v)
    /\ ~max_steps.set => ~EndsWithSentinel
    /\ pc = "done" => result.ids = ids

\* C16: in a run with max_steps unset or at least 1, ids is the description
\* of the initial configuration followed by one description per applied
\* transition, each appended when its transition is applied and never
\* changed afterwards, followed by the sentinel exactly when max_steps is
\* set and the number of applied transitions has reached it; the sentinel
\* is the last entry, occurs once, and never occurs when max_steps is unset.
IdsStructure ==
    /\ []((pc \in {"loop", "done"} /\ (~max_steps.set \/ max_steps.v >= 1))
            => IdsShape)
    /\ [][(pc = "loop" /\ pc' \in {"loop", "done"}
              /\ (~max_steps.set \/ max_steps.v >= 1))
            => /\ SubSeq(ids', 1, Len(ids)) = ids
               /\ steps' = steps + 1 =>
                     (/\ Len(ids') >= Len(ids) + 1
                      /\ ids'[Len(ids) + 1] = format_id(tape', current_state'))
               /\ steps' = steps => ids' = ids]_vars

\* C16 witness: a run with max_steps = 1 returned after one transition with
\* three entries, the last one the sentinel.
IdsStructureWitness ==
    /\ pc = "done"
    /\ max_steps = Limit(1)
    /\ steps = 1
    /\ Len(ids) = 3
    /\ ids[3] = Sentinel
    /\ ids[2] # ids[1]

\* C17 as stated: ids ends with the sentinel only when a transition is still
\* applicable to the final (state, symbol under head) pair; a run whose
\* final configuration has no applicable transition carries no sentinel.
SentinelOnlyWhenApplicable ==
    pc = "done" =>
        /\ EndsWithSentinel => key \in DOMAIN tm.transitions
        /\ key \notin DOMAIN tm.transitions => ~EndsWithSentinel

\* C17 amended: ids ends with the sentinel exactly when max_steps is set, at
\* least one transition was applied, and the number of applied transitions
\* is at least max_steps (exactly max_steps when max_steps >= 1), whether
\* or not a transition is applicable to the final configuration; a run
\* that applied no transition carries no sentinel, even with max_steps = 0;
\* a returned run without the sentinel has no applicable transition in its
\* final configuration.
SentinelIffLimitReached ==
    pc = "done" =>
        /\ EndsWithSentinel <=>
              (max_steps.set /\ steps >= 1 /\ steps >= max_steps.v)
        /\ (EndsWithSentinel /\ max_steps.v >= 1) => steps = max_steps.v
        /\ steps = 0 => ~EndsWithSentinel
        /\ ~EndsWithSentinel => key \notin DOMAIN tm.transitions
        /\ result.ids = ids

\* C17 witness: a run with max_steps = 1 whose configuration after the one
\* transition has no applicable transition, and ids ends with the sentinel.
SentinelIffLimitReachedWitness ==
    /\ pc = "done"
    /\ max_steps = Limit(1)
    /\ steps = 1
    /\ key \notin DOMAIN tm.transitions
    /\ EndsWithSentinel


(***************************************************************************)
(* Claims about the head, the stored cells and the state during a run.     *)
(***************************************************************************)
Abs(x) == IF x < 0 THEN 0 - x ELSE x

Min2(x, y) == IF x < y THEN x ELSE y

Max2(x, y) == IF x > y THEN x ELSE y

\* C19: after k applied transitions of a run the head h satisfies |h| <= k,
\* the last transition changed head by at most 1 and changed no cell other
\* than the one under the head before the move, and every stored position
\* lies between min(0, -(k-1)) and max(len(input)-1, k-1).
HeadMovementBound ==
    pc \in {"loop", "done"} =>
        /\ Abs(tape.head) <= steps
        /\ last.op = "step" =>
              /\ Abs(tape.head - last.before.head) <= 1
              /\ SameCellsExceptAt(tape, last.before, last.before.head)
              /\ steps >= 1
        /\ steps = 0 => tape = LoadedTape
        /\ \A p \in DOMAIN tape.cells :
              /\ p >= Min2(0, 0 - (steps - 1))
              /\ p <= Max2(Len(input_string) - 1, steps - 1)

\* C19 witness: two transitions on the empty input, each writing a symbol
\* and moving Left, so that head and the stored cells are at their bounds.
HeadMovementBoundWitness ==
    /\ pc = "loop"
    /\ input_string = <<>>
    /\ steps = 2
    /\ tape.head = -2
    /\ DOMAIN tape.cells = {-1, 0}

\* C20: at every configuration of every run of a machine that was
\* constructed successfully the current state is one of the machine's
\* declared states, and so is final_state of the result.
StateIsDeclared ==
    /\ pc \in {"loop", "done"} => current_state \in tm.states
    /\ pc = "done" => result.final_state \in tm.states


(***************************************************************************)
(* Termination of run.                                                     *)
(***************************************************************************)
Bounded == max_steps.set /\ max_steps.v >= 1

\* C18: with max_steps = n >= 1 a started run of any machine on any input
\* eventually leaves the loop, by returning unless a move is invalid, and it
\* has applied at most n transitions; with max_steps unset a run returns
\* only in a configuration with no transition for (state, symbol under
\* head), it does return once such a configuration is reached, and no
\* iteration that finds a transition returns.
BoundedTermination ==
    /\ (pc = "loop" /\ (Bounded \/ key \notin DOMAIN tm.transitions))
          ~> (pc \in {"done", "raised"})
    /\ [](pc = "raised" => ~AllMovesValid)
    /\ []((pc \in {"loop", "done", "raised"} /\ Bounded) => steps <= max_steps.v)
    /\ []((pc = "done" /\ ~max_steps.set) => key \notin DOMAIN tm.transitions)
    /\ [][(pc = "loop" /\ ~max_steps.set /\ key \in DOMAIN tm.transitions)
            => pc' # "done"]_vars
    /\ [][(pc = "loop" /\ key \notin DOMAIN tm.transitions) => pc' = "done"]_vars

\* C18 witness: a run with max_steps = 1 returned after one transition
\* although a transition is still applicable where it stopped.
BoundedTerminationWitness ==
    /\ pc = "done"
    /\ max_steps = Limit(1)
    /\ steps = 1
    /\ key \in DOMAIN tm.transitions
    /\ transition.next_state = current_state
    /\ AllMovesValid

=============================================================================
